---- MODULE Spec2Model ----
(***************************************************************************)
(* A model of lcs-png-diff: the LCS table (create_table), the row edit     *)
(* script with prefix/suffix trimming (lcs_diff), the compositor (blend,   *)
(* put_diff_pixels, diff) and the batch driver (main, generate_diff).      *)
(*                                                                         *)
(* Rust slices and vectors are TLA+ sequences.  The source indexes from 0, *)
(* sequences from 1: At(s, i) reads the element the source calls s[i].     *)
(***************************************************************************)
EXTENDS Integers, Sequences, FiniteSets, TLC

VARIABLES
    old, new,            \* the two slices handed to create_table / lcs_diff
    table,               \* what create_table returned (<<>> before the call)
    result,              \* what lcs_diff returned (<<>> before the call)
    called,              \* the function that was called on old and new, once it returned
    before_png, after_png,   \* diff's two DynamicImage arguments
    before_encoded_png,  \* diff: one base64 token per chunk of before
    after_encoded_png,   \* diff: one base64 token per chunk of after
    diff_result,         \* diff: the edit script lcs_diff returned
    img,                 \* diff: img[y + 1] holds the pixels put into row y so far
    y,                   \* diff: the row the compositing loop is at
    diff_pc,             \* diff: "idle", "called", "compose", "returned", "panicked"
    diff_ret,            \* diff: "none", "Ok" (with img) or "Err" (DecodeError)
    pairs,               \* main: the DiffPairs, each by what goes wrong with it
    next_pair,           \* main: the pair the `for pair in pairs` loop is at
    queue,               \* the pool's submitted tasks not yet taken by a worker
    task_pc,             \* per pair: where its generate_diff call is
    written,             \* the pairs whose result file save_png has written
    main_pc              \* main: "idle", "running", "returned"

lcsVars == <<old, new, table, result, called>>

diffVars == <<before_png, after_png, before_encoded_png, after_encoded_png,
              diff_result, img, y, diff_pc, diff_ret>>

mainVars == <<pairs, next_pair, queue, task_pc, written, main_pc>>

-----------------------------------------------------------------------------
(* Bounds of the sequence model *)

\* longest slice drawn for old and new
MaxLen == 3
\* number of distinct element values (the T of the generic functions)
NumTokens == 3
\* widest image drawn for diff
MaxWidth == 2
\* most pixels (width * height) of an image drawn for diff
MaxArea == 4
\* most DiffPairs in a batch
MaxPairs == 3
\* number of worker threads of the pool
PoolSize == 2

Tokens == 1..NumTokens

RECURSIVE SeqsUpTo(_, _)
SeqsUpTo(S, n) ==
    IF n = 0 THEN {<<>>}
    ELSE LET shorter == SeqsUpTo(S, n - 1)
         IN  shorter \cup {Append(s, x) : s \in {t \in shorter : Len(t) = n - 1}, x \in S}

-----------------------------------------------------------------------------
(* Helpers for the source's 0-based indexing and std::cmp *)

At(s, i) == s[i + 1]

\* s[from..to] of the source: indices from .. to-1
Slice(s, from, to) == SubSeq(s, from + 1, to)

cmp_max(a, b) == IF a >= b THEN a ELSE b

cmp_min(a, b) == IF a <= b THEN a ELSE b

-----------------------------------------------------------------------------
(* create_table: lib.rs 33-50 *)

\* vec![vec![0; old_len + 1]; new_len + 1]
ZeroTable(old_len, new_len) == [i \in 0..new_len |-> [j \in 0..old_len |-> 0]]

\* a faulty cell assignment: the smaller neighbour instead of the larger
CellValue_min(tbl, olds, news, i, j) ==
    IF At(news, i) = At(olds, j)
    THEN tbl[i + 1][j + 1] + 1
    ELSE cmp_min(tbl[i + 1][j], tbl[i][j + 1])

\* the cell assignment of lines 42-46 (max, as the source)
CellValue(tbl, olds, news, i, j) ==
    IF At(news, i) = At(olds, j)
    THEN tbl[i + 1][j + 1] + 1
    ELSE cmp_max(tbl[i + 1][j], tbl[i][j + 1])

\* the two nested loops, from cell (i, j) on: j runs down within a row, then i
RECURSIVE FillTable(_, _, _, _, _)
FillTable(tbl, olds, news, i, j) ==
    LET filled == [tbl EXCEPT ![i][j] = CellValue(tbl, olds, news, i, j)]
    IN  IF j > 0 THEN FillTable(filled, olds, news, i, j - 1)
        ELSE IF i > 0 THEN FillTable(filled, olds, news, i - 1, Len(olds) - 1)
        ELSE filled

create_table(olds, news) ==
    IF Len(olds) = 0 \/ Len(news) = 0
    THEN ZeroTable(Len(olds), Len(news))
    ELSE FillTable(ZeroTable(Len(olds), Len(news)), olds, news,
                   Len(news) - 1, Len(olds) - 1)

-----------------------------------------------------------------------------
(* lcs_diff: lib.rs 52-151 *)

\* A DiffResult: its variant and the DiffElement's reference `data`, which
\* points at element `index` of the slice `src` ("old" or "new").
DiffOp(kind, src, index) == [kind |-> kind, src |-> src, index |-> index]

\* the value behind a DiffElement's reference
Data(op, olds, news) ==
    IF op.src = "old" THEN At(olds, op.index) ELSE At(news, op.index)

\* lines 75-76: old.iter().zip(new).take_while(|p| p.0 == p.1).count()
RECURSIVE PrefixCount(_, _, _)
PrefixCount(olds, news, k) ==
    IF k < cmp_min(Len(olds), Len(news)) /\ At(olds, k) = At(news, k)
    THEN PrefixCount(olds, news, k + 1)
    ELSE k

prefix_size(olds, news) == PrefixCount(olds, news, 0)

\* lines 77-83: the reversed zip, .take(limit).take_while(eq).count()
RECURSIVE SuffixCount(_, _, _, _)
SuffixCount(olds, news, limit, k) ==
    IF k < limit /\ At(olds, Len(olds) - 1 - k) = At(news, Len(news) - 1 - k)
    THEN SuffixCount(olds, news, limit, k + 1)
    ELSE k

\* a faulty limit: the suffix scan may run back into the common prefix
SuffixLimit_overlap(old_len, new_len, prefix) == cmp_min(old_len, new_len)

\* line 81: .take(cmp::min(old_len, new_len) - prefix_size)
SuffixLimit(old_len, new_len, prefix) == cmp_min(old_len, new_len) - prefix

suffix_size(olds, news, prefix) ==
    SuffixCount(olds, news, SuffixLimit(Len(olds), Len(news), prefix), 0)

\* lines 105-106, 126, 133: n + prefix_size, o + prefix_size
new_index(n, prefix) == n + prefix

old_index(o, prefix) == o + prefix

\* a faulty suffix index: the prefix offset forgotten
suffix_old_index_no_prefix(suffix_index, old_len, prefix) == suffix_index + old_len

\* line 143: suffix_index + old_len + prefix_size (old_len the trimmed length)
suffix_old_index(suffix_index, old_len, prefix) == suffix_index + old_len + prefix

\* a faulty tie-break: on a tie the old row is skipped (Removed) instead
AddedWins_strict(tbl, n, o) == tbl[n + 1][o] > tbl[n][o + 1]

\* a faulty tie-break: the table is never consulted
AddedWins_always(tbl, n, o) == TRUE

\* line 113: the tie-break, Added unless skipping the old row keeps more
AddedWins(tbl, n, o) == tbl[n + 1][o] >= tbl[n][o + 1]

\* lines 93-99: Restore common prefix
RestorePrefix(prefix) == [k \in 1..prefix |-> DiffOp("Common", "old", k - 1)]

\* lines 101-124: the backtracking loop, from counters (n, o) on; returns the
\* counters at the break and the operations pushed
RECURSIVE BacktrackLoop(_, _, _, _, _, _, _, _, _)
BacktrackLoop(olds, news, tbl, prefix, old_len, new_len, n, o, res) ==
    IF n >= new_len \/ o >= old_len
    THEN [n |-> n, o |-> o, result |-> res]
    ELSE IF At(news, new_index(n, prefix)) = At(olds, old_index(o, prefix))
    THEN BacktrackLoop(olds, news, tbl, prefix, old_len, new_len, n + 1, o + 1,
                       Append(res, DiffOp("Common", "new", new_index(n, prefix))))
    ELSE IF AddedWins(tbl, n, o)
    THEN BacktrackLoop(olds, news, tbl, prefix, old_len, new_len, n + 1, o,
                       Append(res, DiffOp("Added", "new", new_index(n, prefix))))
    ELSE BacktrackLoop(olds, news, tbl, prefix, old_len, new_len, n, o + 1,
                       Append(res, DiffOp("Removed", "old", old_index(o, prefix))))

\* lines 125-131: while n < new_len, push Added
RemainingAdded(n, new_len, prefix) ==
    [k \in 1..(new_len - n) |-> DiffOp("Added", "new", new_index(n + k - 1, prefix))]

\* a faulty tail: the rows of old left over after the loop are dropped
RemainingRemoved_none(o, old_len, prefix) == <<>>

\* lines 132-138: while o < old_len, push Removed
RemainingRemoved(o, old_len, prefix) ==
    [k \in 1..(old_len - o) |-> DiffOp("Removed", "old", old_index(o + k - 1, prefix))]

\* lines 140-148: Restore common suffix
RestoreSuffix(suffix, old_len, prefix) ==
    [k \in 1..suffix |-> DiffOp("Common", "old", suffix_old_index(k - 1, old_len, prefix))]

\* lines 72-150: the branch taken when neither slice is empty
TrimmedDiff(olds, news) ==
    LET prefix  == prefix_size(olds, news)
        suffix  == suffix_size(olds, news, prefix)
        tbl     == create_table(Slice(olds, prefix, Len(olds) - suffix),
                                Slice(news, prefix, Len(news) - suffix))
        new_len == Len(news) - prefix - suffix
        old_len == Len(olds) - prefix - suffix
        walk    == BacktrackLoop(olds, news, tbl, prefix, old_len, new_len, 0, 0,
                                 RestorePrefix(prefix))
    IN  walk.result
          \o RemainingAdded(walk.n, new_len, prefix)
          \o RemainingRemoved(walk.o, old_len, prefix)
          \o RestoreSuffix(suffix, old_len, prefix)

lcs_diff(olds, news) ==
    IF Len(news) = 0
    THEN [k \in 1..Len(olds) |-> DiffOp("Removed", "old", k - 1)]
    ELSE IF Len(olds) = 0
    THEN [k \in 1..Len(news) |-> DiffOp("Added", "new", k - 1)]
    ELSE TrimmedDiff(olds, news)

-----------------------------------------------------------------------------
(* Images and base64: what diff gets from the image and base64 crates *)

\* line 192, 198: the stride is width * 4, and line 172: index = x * 4
RGBA_CHANNELS == 4

\* lines 11-14
BLACK == <<0, 0, 0>>

RED == <<255, 119, 119>>

GREEN == <<99, 195, 99>>

\* RATE = 0.25 and the literal 0.0 of line 215, as fractions
RATE == [num |-> 1, den |-> 4]

NO_RATE == [num |-> 0, den |-> 1]

\* the color types drawn for a DynamicImage and their bytes per pixel
ColorTypes == {"Rgb8", "Rgba8"}

BytesPerPixel(color) == IF color = "Rgba8" THEN RGBA_CHANNELS ELSE RGBA_CHANNELS - 1

\* the pixel values images are drawn from (the rows of the test at line 259)
Palette == <<(<<255, 255, 255, 5>>), (<<167, 167, 133, 7>>)>>

RECURSIVE Flatten(_)
Flatten(seqs) == IF seqs = <<>> THEN <<>> ELSE Head(seqs) \o Flatten(Tail(seqs))

RECURSIVE SeqsOfLen(_, _)
SeqsOfLen(S, n) ==
    IF n = 0 THEN {<<>>}
    ELSE {Append(s, x) : s \in SeqsOfLen(S, n - 1), x \in S}

\* A DynamicImage: dimensions, color type and the raw buffer as_bytes() gives,
\* width * height pixels of BytesPerPixel(color) bytes each, row after row.
MakeImage(w, h, color, pixels) ==
    [width |-> w, height |-> h, color |-> color,
     bytes |-> Flatten([k \in 1..Len(pixels) |->
                          SubSeq(Palette[pixels[k]], 1, BytesPerPixel(color))])]

Images ==
    UNION {UNION {{MakeImage(w, h, c, px) : px \in SeqsOfLen(DOMAIN Palette, w * h),
                                           c \in ColorTypes}
                  : h \in {k \in 0..MaxArea : w * k <= MaxArea}}
           : w \in 1..MaxWidth}

dimensions(png) == <<png.width, png.height>>

as_bytes(png) == png.bytes

\* slice::chunks(size): consecutive chunks of `size` elements, the last one
\* shorter when the length is no multiple of size
RECURSIVE chunks(_, _)
chunks(bytes, size) ==
    IF Len(bytes) = 0 THEN <<>>
    ELSE IF Len(bytes) <= size THEN <<bytes>>
    ELSE <<SubSeq(bytes, 1, size)>> \o chunks(SubSeq(bytes, size + 1, Len(bytes)), size)

\* base64::encode: a String is the sequence of its symbols' values, 0..63,
\* and 64 for the padding '='
RECURSIVE encode(_)
encode(b) ==
    IF Len(b) = 0 THEN <<>>
    ELSE IF Len(b) = 1
    THEN <<b[1] \div 4, (b[1] % 4) * 16, 64, 64>>
    ELSE IF Len(b) = 2
    THEN <<b[1] \div 4, (b[1] % 4) * 16 + b[2] \div 16, (b[2] % 16) * 4, 64>>
    ELSE <<b[1] \div 4, (b[1] % 4) * 16 + b[2] \div 16,
           (b[2] % 16) * 4 + b[3] \div 64, b[3] % 64>>
           \o encode(SubSeq(b, 4, Len(b)))

DecodeError == [ok |-> FALSE, bytes |-> <<>>]

\* one quantum of four symbols; padding only in the last one, and the unused
\* bits of the last symbol zero
DecodeQuantum(g, last) ==
    IF \A k \in 1..4 : g[k] \in 0..63
    THEN [ok |-> TRUE,
          bytes |-> <<g[1] * 4 + g[2] \div 16,
                      (g[2] % 16) * 16 + g[3] \div 4,
                      (g[3] % 4) * 64 + g[4]>>]
    ELSE IF last /\ g[1] \in 0..63 /\ g[2] \in 0..63 /\ g[3] \in 0..63
                 /\ g[4] = 64 /\ g[3] % 4 = 0
    THEN [ok |-> TRUE,
          bytes |-> <<g[1] * 4 + g[2] \div 16, (g[2] % 16) * 16 + g[3] \div 4>>]
    ELSE IF last /\ g[1] \in 0..63 /\ g[2] \in 0..63
                 /\ g[3] = 64 /\ g[4] = 64 /\ g[2] % 16 = 0
    THEN [ok |-> TRUE, bytes |-> <<g[1] * 4 + g[2] \div 16>>]
    ELSE DecodeError

RECURSIVE DecodeQuanta(_)
DecodeQuanta(s) ==
    IF Len(s) = 0 THEN [ok |-> TRUE, bytes |-> <<>>]
    ELSE LET first == DecodeQuantum(SubSeq(s, 1, 4), Len(s) = 4)
             rest  == DecodeQuanta(SubSeq(s, 5, Len(s)))
         IN  IF first.ok /\ rest.ok
             THEN [ok |-> TRUE, bytes |-> first.bytes \o rest.bytes]
             ELSE DecodeError

\* base64::decode: Ok(bytes), or Err(DecodeError) on a malformed string
decode(s) == IF Len(s) % 4 # 0 THEN DecodeError ELSE DecodeQuanta(s)

-----------------------------------------------------------------------------
(* The compositor: blend, put_diff_pixels, diff (lib.rs 153-219) *)

\* a faulty cast: rounding to nearest instead of truncating
BlendChannel_round(base, c, rate) ==
    (2 * (base * (rate.den - rate.num) + c * rate.num) + rate.den) \div (2 * rate.den)

\* `as u8` of base as f32 * (1.0 - rate) + c as f32 * rate: the products and
\* the sum are exact in f32 for these rates, the cast truncates
BlendChannel(base, c, rate) == (base * (rate.den - rate.num) + c * rate.num) \div rate.den

blend(base, rgb, rate) ==
    <<BlendChannel(base[1], rgb[1], rate),
      BlendChannel(base[2], rgb[2], rate),
      BlendChannel(base[3], rgb[3], rate),
      base[4]>>

\* line 173: row_width > x
InsideRow(row_width, x) == row_width > x

\* lines 171-179, from column x on; `put` are the pixels put into row y so
\* far.  Indexing row beyond its length panics.
RECURSIVE PutPixelsFrom(_, _, _, _, _, _, _)
PutPixelsFrom(row, width, row_width, rgb, rate, x, put) ==
    IF x >= width THEN [outcome |-> "Ok", pixels |-> put]
    ELSE LET index == x * RGBA_CHANNELS
         IN  IF InsideRow(row_width, x)
             THEN IF index + 3 >= Len(row)
                  THEN [outcome |-> "Panic", pixels |-> put]
                  ELSE PutPixelsFrom(row, width, row_width, rgb, rate, x + 1,
                         Append(put, blend(<<At(row, index), At(row, index + 1),
                                             At(row, index + 2), At(row, index + 3)>>,
                                           rgb, rate)))
             ELSE PutPixelsFrom(row, width, row_width, rgb, rate, x + 1,
                                Append(put, blend(<<0, 0, 0, 0>>, rgb, rate)))

\* put_diff_pixels: `width` is img.dimensions().0; returns the outcome and
\* the pixels it put into row y
put_diff_pixels(width, row_width, data, rgb, rate) ==
    LET row == decode(data)
    IN  IF ~row.ok THEN [outcome |-> "Err", pixels |-> <<>>]
        ELSE PutPixelsFrom(row.bytes, width, row_width, rgb, rate, 0, <<>>)

\* lines 189-200: .as_bytes().to_vec().chunks(w as usize * 4).map(encode).collect()
EncodeRows(png) ==
    LET rows == chunks(as_bytes(png), dimensions(png)[1] * RGBA_CHANNELS)
    IN  [k \in 1..Len(rows) |-> encode(rows[k])]

\* line 205
OutputWidth(before, after) == cmp_max(dimensions(before)[1], dimensions(after)[1])

\* lines 208-216: the row width, highlight and rate handed to put_diff_pixels
RowWidthFor(op, before, after) ==
    CASE op.kind = "Added"   -> dimensions(after)[1]
      [] op.kind = "Removed" -> dimensions(before)[1]
      [] op.kind = "Common"  -> OutputWidth(before, after)

HighlightFor(op) ==
    CASE op.kind = "Added"   -> GREEN
      [] op.kind = "Removed" -> RED
      [] op.kind = "Common"  -> BLACK

RateFor(op) == IF op.kind = "Common" THEN NO_RATE ELSE RATE

-----------------------------------------------------------------------------
(* The sequence specification: create_table or lcs_diff called once on any  *)
(* pair of slices within the bounds, as the unit tests call them.           *)

vars == <<lcsVars, diffVars, mainVars>>

LcsIdle ==
    /\ old = <<>> /\ new = <<>> /\ table = <<>> /\ result = <<>> /\ called = {}

DiffIdle ==
    /\ before_png = <<>> /\ after_png = <<>>
    /\ before_encoded_png = <<>> /\ after_encoded_png = <<>>
    /\ diff_result = <<>> /\ img = <<>> /\ y = 0
    /\ diff_pc = "idle" /\ diff_ret = "none"

MainIdle ==
    /\ pairs = <<>> /\ next_pair = 0 /\ queue = <<>> /\ task_pc = <<>>
    /\ written = {} /\ main_pc = "idle"

Init ==
    /\ old \in SeqsUpTo(Tokens, MaxLen)
    /\ new \in SeqsUpTo(Tokens, MaxLen)
    /\ table = <<>>
    /\ result = <<>>
    /\ called = {}
    /\ DiffIdle
    /\ MainIdle

CallCreateTable ==
    /\ called = {}
    /\ table' = create_table(old, new)
    /\ called' = called \cup {"create_table"}
    /\ UNCHANGED <<old, new, result>>
    /\ UNCHANGED <<diffVars, mainVars>>

CallLcsDiff ==
    /\ called = {}
    /\ result' = lcs_diff(old, new)
    /\ called' = called \cup {"lcs_diff"}
    /\ UNCHANGED <<old, new, table>>
    /\ UNCHANGED <<diffVars, mainVars>>

Next == CallCreateTable \/ CallLcsDiff

Spec == Init /\ [][Next]_vars

-----------------------------------------------------------------------------
(* The image specification: diff applied to every pair of images within the *)
(* bounds, its compositing loop one row at a time.                          *)

DiffInit ==
    /\ LcsIdle
    /\ MainIdle
    /\ before_png \in Images
    /\ after_png \in Images
    /\ before_encoded_png = <<>> /\ after_encoded_png = <<>>
    /\ diff_result = <<>> /\ img = <<>> /\ y = 0
    /\ diff_pc = "called" /\ diff_ret = "none"

\* lines 187-206: tokens, edit script, and the empty output raster
DiffStart ==
    /\ diff_pc = "called"
    /\ before_encoded_png' = EncodeRows(before_png)
    /\ after_encoded_png' = EncodeRows(after_png)
    /\ diff_result' = lcs_diff(before_encoded_png', after_encoded_png')
    /\ img' = [k \in 1..Len(diff_result') |-> <<>>]
    /\ y' = 0
    /\ diff_pc' = "compose"
    /\ UNCHANGED <<before_png, after_png, diff_ret>>
    /\ UNCHANGED <<lcsVars, mainVars>>

\* lines 207-217: one iteration of the loop over diff_result; the `?` returns
\* a DecodeError, an out-of-bounds index panics
DiffRow ==
    /\ diff_pc = "compose"
    /\ y < Len(diff_result)
    /\ LET d   == diff_result[y + 1]
           put == put_diff_pixels(OutputWidth(before_png, after_png),
                                  RowWidthFor(d, before_png, after_png),
                                  Data(d, before_encoded_png, after_encoded_png),
                                  HighlightFor(d), RateFor(d))
       IN  /\ img' = [img EXCEPT ![y + 1] = put.pixels]
           /\ y' = IF put.outcome = "Ok" THEN y + 1 ELSE y
           /\ diff_pc' = CASE put.outcome = "Ok"    -> "compose"
                            [] put.outcome = "Err"   -> "returned"
                            [] put.outcome = "Panic" -> "panicked"
           /\ diff_ret' = IF put.outcome = "Err" THEN "Err" ELSE diff_ret
    /\ UNCHANGED <<before_png, after_png, before_encoded_png, after_encoded_png,
                   diff_result>>
    /\ UNCHANGED <<lcsVars, mainVars>>

\* line 218: Ok(ImageRgba8(img))
DiffReturn ==
    /\ diff_pc = "compose"
    /\ y = Len(diff_result)
    /\ diff_pc' = "returned"
    /\ diff_ret' = "Ok"
    /\ UNCHANGED <<before_png, after_png, before_encoded_png, after_encoded_png,
                   diff_result, img, y>>
    /\ UNCHANGED <<lcsVars, mainVars>>

DiffNext == DiffStart \/ DiffRow \/ DiffReturn

SpecDiff == DiffInit /\ [][DiffNext]_vars

-----------------------------------------------------------------------------
(* The batch driver: main and generate_diff (main.rs 41-80).  The pool runs *)
(* each submitted closure on one of its worker threads; a closure that      *)
(* panics unwinds its worker only, and the pool replaces that worker.       *)

\* what can go wrong with a pair: nothing, an image that cannot be opened
\* (lines 74-75), or a diff that fails (lines 76-77)
Faults == {"none", "open", "diff"}

Running == {i \in 1..Len(pairs) : task_pc[i] \in {"open", "diff", "save"}}

\* a faulty join: main goes on without waiting for the pool
AllWorkDone_nowait == TRUE

\* line 63, pool.shutdown_join(): returns once no task is queued or running
AllWorkDone == queue = <<>> /\ Running = {}

MainInit ==
    /\ LcsIdle
    /\ DiffIdle
    /\ pairs \in SeqsUpTo(Faults, MaxPairs)
    /\ next_pair = 1
    /\ queue = <<>>
    /\ task_pc = [i \in 1..Len(pairs) |-> "new"]
    /\ written = {}
    /\ main_pc = "running"

\* lines 60-62: one iteration of the loop, pool.execute(move || generate_diff(pair))
MainExecute ==
    /\ main_pc = "running"
    /\ next_pair <= Len(pairs)
    /\ queue' = Append(queue, next_pair)
    /\ task_pc' = [task_pc EXCEPT ![next_pair] = "queued"]
    /\ next_pair' = next_pair + 1
    /\ UNCHANGED <<pairs, written, main_pc>>
    /\ UNCHANGED <<lcsVars, diffVars>>

\* lines 63-64: shutdown_join, then Ok(())
MainShutdownJoin ==
    /\ main_pc = "running"
    /\ next_pair > Len(pairs)
    /\ AllWorkDone
    /\ main_pc' = "returned"
    /\ UNCHANGED <<pairs, next_pair, queue, task_pc, written>>
    /\ UNCHANGED <<lcsVars, diffVars>>

\* a free worker thread takes the oldest submitted task and calls it
WorkerTake ==
    /\ queue # <<>>
    /\ Cardinality(Running) < PoolSize
    /\ task_pc' = [task_pc EXCEPT ![Head(queue)] = "open"]
    /\ queue' = Tail(queue)
    /\ UNCHANGED <<pairs, next_pair, written, main_pc>>
    /\ UNCHANGED <<lcsVars, diffVars>>

\* generate_diff lines 74-75: image::open(..).expect(..) of both images
GenerateDiffOpen(i) ==
    /\ task_pc[i] = "open"
    /\ task_pc' = [task_pc EXCEPT ![i] = IF pairs[i] = "open" THEN "panicked" ELSE "diff"]
    /\ UNCHANGED <<pairs, next_pair, queue, written, main_pc>>
    /\ UNCHANGED <<lcsVars, diffVars>>

\* generate_diff lines 76-77: diff(&before, &after).expect(..)
GenerateDiffDiff(i) ==
    /\ task_pc[i] = "diff"
    /\ task_pc' = [task_pc EXCEPT ![i] = IF pairs[i] = "diff" THEN "panicked" ELSE "save"]
    /\ UNCHANGED <<pairs, next_pair, queue, written, main_pc>>
    /\ UNCHANGED <<lcsVars, diffVars>>

\* generate_diff lines 78-79: save_png and the timing line
GenerateDiffSave(i) ==
    /\ task_pc[i] = "save"
    /\ written' = written \cup {i}
    /\ task_pc' = [task_pc EXCEPT ![i] = "done"]
    /\ UNCHANGED <<pairs, next_pair, queue, main_pc>>
    /\ UNCHANGED <<lcsVars, diffVars>>

Worker ==
    \E i \in 1..Len(pairs) :
        GenerateDiffOpen(i) \/ GenerateDiffDiff(i) \/ GenerateDiffSave(i)

MainNext == MainExecute \/ MainShutdownJoin \/ WorkerTake \/ Worker

\* main's thread and the pool's worker threads all keep running
SpecMain == MainInit /\ [][MainNext]_vars /\ WF_vars(MainNext)

-----------------------------------------------------------------------------
(* Properties of create_table and lcs_diff *)

OfKind(ops, kinds) == SelectSeq(ops, LAMBDA op : op.kind \in kinds)

Count(ops, kind) == Len(OfKind(ops, {kind}))

\* the rows a sequence of operations references, by value
Rows(ops, olds, news) == [k \in 1..Len(ops) |-> Data(ops[k], olds, news)]

\* the elements of s at the positions in I, in order
RECURSIVE Pick(_, _)
Pick(s, I) ==
    IF I = {} THEN <<>>
    ELSE LET m == CHOOSE a \in I : \A b \in I : b <= a
         IN  Append(Pick(s, I \ {m}), s[m])

Subsequences(s) == {Pick(s, I) : I \in SUBSET (1..Len(s))}

SetMax(S) == CHOOSE a \in S : \A b \in S : b <= a

\* c can be obtained from s by deleting elements (k: how much of s is used up)
RECURSIVE IsSubsequenceFrom(_, _, _)
IsSubsequenceFrom(c, s, k) ==
    IF c = <<>> THEN TRUE
    ELSE IF k > Len(s) THEN FALSE
    ELSE IF Head(c) = s[k] THEN IsSubsequenceFrom(Tail(c), s, k + 1)
    ELSE IsSubsequenceFrom(c, s, k + 1)

\* the length of a longest common subsequence, by enumeration
LcsLengthAmong(subs, b) ==
    SetMax({Len(c) : c \in {s \in subs : IsSubsequenceFrom(s, b, 1)}})

LcsLength(a, b) == LcsLengthAmong(Subsequences(a), b)

\* s[i..] of the source
From(s, i) == Slice(s, i, Len(s))

\* C1: in the result of lcs_diff the rows referenced by the Removed and
\* Common operations, in output order, are old[0], old[1], ..., and those
\* referenced by the Added and Common operations are new[0], new[1], ...;
\* an operation that points into old (new) is the k-th of its kind-group
\* exactly when it points at index k (the prefix offset included).
C1_Reconstruction ==
    "lcs_diff" \in called =>
        LET rc == OfKind(result, {"Removed", "Common"})
            ac == OfKind(result, {"Added", "Common"})
        IN  /\ Rows(rc, old, new) = old
            /\ Rows(ac, old, new) = new
            /\ \A k \in 1..Len(rc) : rc[k].src = "old" => rc[k].index = k - 1
            /\ \A k \in 1..Len(ac) : ac[k].src = "new" => ac[k].index = k - 1
            /\ \A k \in 1..Len(result) :
                   /\ result[k].kind = "Removed" => result[k].src = "old"
                   /\ result[k].kind = "Added" => result[k].src = "new"

\* lcs_diff has returned a script with a trimmed prefix, a trimmed suffix
\* and both an Added and a Removed row between them
C1_Witness ==
    /\ "lcs_diff" \in called
    /\ Len(old) > 0 /\ Len(new) > 0
    /\ prefix_size(old, new) > 0
    /\ suffix_size(old, new, prefix_size(old, new)) > 0
    /\ Count(result, "Added") > 0
    /\ Count(result, "Removed") > 0

\* C4: create_table(old, new) has new_len + 1 rows of old_len + 1 cells and
\* cell [i][j] is the LCS length of new[i..] and old[j..]; so the last row
\* and column are 0 and cell [0][0] is the LCS length of the whole inputs.
C4_TableIsLcs ==
    "create_table" \in called =>
        /\ DOMAIN table = 0..Len(new)
        /\ \A i \in 0..Len(new) :
              LET subs == Subsequences(From(new, i))
              IN  /\ DOMAIN table[i] = 0..Len(old)
                  /\ \A j \in 0..Len(old) :
                        table[i][j] = LcsLengthAmong(subs, From(old, j))
        /\ \A j \in 0..Len(old) : table[Len(new)][j] = 0
        /\ \A i \in 0..Len(new) : table[i][Len(old)] = 0
        /\ table[0][0] = LcsLength(new, old)

\* a table whose LCS is neither empty nor a whole input, and not a prefix
C4_Witness ==
    /\ "create_table" \in called
    /\ Len(old) = MaxLen /\ Len(new) = MaxLen
    /\ table[0][0] = 2
    /\ At(old, 0) # At(new, 0)

\* the same table construction and backtracking with nothing trimmed: the
\* table over the whole slices, the loop from (0, 0) with prefix_size 0, then
\* the two tail loops
UntrimmedDiff(olds, news) ==
    LET walk == BacktrackLoop(olds, news, create_table(olds, news), 0,
                              Len(olds), Len(news), 0, 0, <<>>)
    IN  walk.result
          \o RemainingAdded(walk.n, Len(news), 0)
          \o RemainingRemoved(walk.o, Len(olds), 0)

\* what an edit script says: the kind of each operation and the row it shows
Script(ops, olds, news) ==
    [k \in 1..Len(ops) |-> <<ops[k].kind, Data(ops[k], olds, news)>>]

NoRepeatedRow(s) == \A i, j \in 1..Len(s) : s[i] = s[j] => i = j

\* C2 as stated: with trimming, lcs_diff produces exactly the edit script
\* that the untrimmed table construction and backtracking produce.
C2_TrimEquivalence ==
    "lcs_diff" \in called =>
        Script(result, old, new) = Script(UntrimmedDiff(old, new), old, new)

\* C2 amended: the trimmed script has as many Common, Added and Removed
\* operations as the untrimmed one, and is the same script whenever the
\* common suffix is empty or neither slice holds a row twice.
C2_TrimEquivalenceAmended ==
    "lcs_diff" \in called =>
        LET untrimmed == UntrimmedDiff(old, new)
        IN  /\ \A kind \in {"Common", "Added", "Removed"} :
                  Count(result, kind) = Count(untrimmed, kind)
            /\ (\/ suffix_size(old, new, prefix_size(old, new)) = 0
                \/ NoRepeatedRow(old) /\ NoRepeatedRow(new))
                  => Script(result, old, new) = Script(untrimmed, old, new)

\* a script with a trimmed prefix and suffix around a middle that the loop
\* had to walk, from slices without repeated rows
C2_Witness ==
    /\ "lcs_diff" \in called
    /\ NoRepeatedRow(old) /\ NoRepeatedRow(new)
    /\ Len(old) > 0 /\ Len(new) > 0
    /\ suffix_size(old, new, prefix_size(old, new)) > 0
    /\ Count(result, "Added") + Count(result, "Removed") > 0

\* the table lcs_diff builds: over the middle left after trimming
MiddleTable(olds, news) ==
    LET prefix == prefix_size(olds, news)
        suffix == suffix_size(olds, news, prefix)
    IN  create_table(Slice(olds, prefix, Len(olds) - suffix),
                     Slice(news, prefix, Len(news) - suffix))

\* C3: for non-empty slices the number of Common operations is
\* prefix_len + suffix_len + table[0][0], table built over the middle.
C3_CommonCount ==
    ("lcs_diff" \in called /\ Len(old) > 0 /\ Len(new) > 0) =>
        LET prefix == prefix_size(old, new)
            suffix == suffix_size(old, new, prefix)
        IN  Count(result, "Common") = prefix + suffix + MiddleTable(old, new)[0][0]

\* something was trimmed and the middle still holds a common row that the
\* loop can only reach by skipping rows
C3_Witness ==
    /\ "lcs_diff" \in called
    /\ Len(old) > 0 /\ Len(new) > 0
    /\ prefix_size(old, new) + suffix_size(old, new, prefix_size(old, new)) > 0
    /\ MiddleTable(old, new)[0][0] > 0
    /\ Count(result, "Removed") > 0

Disjoint(olds, news) ==
    \A i \in 1..Len(olds), j \in 1..Len(news) : olds[i] # news[j]

\* C9: when no row of old equals a row of new, the script has no Common
\* operation, old_len Removed operations and new_len Added operations.
C9_DisjointCounts ==
    ("lcs_diff" \in called /\ Disjoint(old, new)) =>
        /\ Count(result, "Common") = 0
        /\ Count(result, "Removed") = Len(old)
        /\ Count(result, "Added") = Len(new)

\* disjoint slices, both with more than one row
C9_Witness ==
    /\ "lcs_diff" \in called
    /\ Disjoint(old, new)
    /\ Len(old) > 1 /\ Len(new) > 1
    /\ Len(result) = Len(old) + Len(new)

-----------------------------------------------------------------------------
(* Properties of diff *)

Composing == diff_pc \in {"compose", "returned", "panicked"}

BothRgba8 == before_png.color = "Rgba8" /\ after_png.color = "Rgba8"

\* C5 as stated: the raster diff returns is max(before_w, after_w) wide and
\* one row per edit operation high, and that height is before_height plus
\* the Added operations and after_height plus the Removed operations.
C5_RasterSize ==
    diff_ret = "Ok" =>
        /\ Len(img) = Len(diff_result)
        /\ \A k \in 1..Len(img) : Len(img[k]) = OutputWidth(before_png, after_png)
        /\ Len(img) = before_png.height + Count(diff_result, "Added")
        /\ Len(img) = after_png.height + Count(diff_result, "Removed")

\* C5 on Rgba8 images only, where as_bytes() has width * 4 bytes per row
C5_RasterSizeRgba8 == BothRgba8 => C5_RasterSize

\* the raw bytes of the chunk an operation references
ReferencedChunk(op) ==
    LET png == IF op.src = "old" THEN before_png ELSE after_png
    IN  chunks(as_bytes(png), png.width * 4)[op.index + 1]

\* the bytes of a raster, row after row
RasterBytes(raster) == Flatten([k \in 1..Len(raster) |-> Flatten(raster[k])])

\* C6 as stated: diffing an image against itself gives one Common operation
\* per row, in row order, and returns a raster byte-identical to the input.
C6_Identity ==
    (before_png = after_png /\ Composing) =>
        /\ Len(diff_result) = before_png.height
        /\ \A k \in 1..Len(diff_result) :
              /\ diff_result[k].kind = "Common"
              /\ diff_result[k].index = k - 1
        /\ diff_pc # "panicked"
        /\ diff_pc = "returned" =>
              /\ diff_ret = "Ok"
              /\ RasterBytes(img) = as_bytes(before_png)

\* C6 on Rgba8 images only
C6_IdentityRgba8 == BothRgba8 => C6_Identity

\* the pixel C7 describes for column x of the row of operation op
DescribedPixel(op, x) ==
    LET png    == IF op.src = "old" THEN before_png ELSE after_png
        chunk  == ReferencedChunk(op)
        source == IF x < png.width
                  THEN <<chunk[4 * x + 1], chunk[4 * x + 2], chunk[4 * x + 3], chunk[4 * x + 4]>>
                  ELSE <<0, 0, 0, 0>>
        tint   == IF op.kind = "Added" THEN <<99, 195, 99>> ELSE <<255, 119, 119>>
    IN  IF op.kind = "Common" THEN source
        ELSE <<(3 * source[1] + tint[1]) \div 4,
               (3 * source[2] + tint[2]) \div 4,
               (3 * source[3] + tint[3]) \div 4,
               source[4]>>

\* C7: every pixel the compositor has put, at row y and column x, is the
\* referenced row's pixel at x (or (0,0,0,0) beyond that row's image width)
\* with its first three channels floor((3 * original + highlight) / 4) for
\* Added (99,195,99) and Removed (255,119,119), unchanged for Common, and
\* its alpha unchanged; a returned raster has every pixel put.
C7_PixelValues ==
    Composing =>
        /\ \A k \in 1..Len(img) : \A x \in 0..(Len(img[k]) - 1) :
              img[k][x + 1] = DescribedPixel(diff_result[k], x)
        /\ diff_ret = "Ok" =>
              \A k \in 1..Len(img) : Len(img[k]) = OutputWidth(before_png, after_png)

\* a returned raster of two images of different widths with an Added and a
\* Removed row, so that one of them is padded with transparent pixels
C7_Witness ==
    /\ diff_ret = "Ok"
    /\ before_png.width # after_png.width
    /\ Count(diff_result, "Added") > 0
    /\ Count(diff_result, "Removed") > 0

\* C8 as stated: no column x below the row width handed to put_diff_pixels
\* indexes the decoded row at or beyond its length, so diff ends only by
\* returning (Ok, or Err on a row that does not decode) and never panics.
C8_NoOutOfBounds ==
    Composing =>
        /\ diff_pc # "panicked"
        /\ \A k \in 1..Len(diff_result) :
              LET op  == diff_result[k]
                  row == decode(Data(op, before_encoded_png, after_encoded_png))
              IN  \A x \in 0..(RowWidthFor(op, before_png, after_png) - 1) :
                     4 * x + 3 < Len(row.bytes)

\* C8 on Rgba8 images only
C8_NoOutOfBoundsRgba8 == BothRgba8 => C8_NoOutOfBounds

-----------------------------------------------------------------------------
(* Properties of main *)

Dispatched == 1..(next_pair - 1)

\* at main's return every dispatched pair has finished, and every pair with
\* nothing wrong with it has completed and written its result
FinishedAtReturn ==
    main_pc = "returned" =>
        /\ Dispatched = 1..Len(pairs)
        /\ \A i \in Dispatched :
              /\ task_pc[i] \in {"done", "panicked"}
              /\ pairs[i] = "none" => (task_pc[i] = "done" /\ i \in written)

\* C10: in a batch run main returns only after every dispatched pair has
\* finished (completed or failed), a pair that fails keeps no other pair
\* from completing and writing its result, and main does return.
C10_JoinAndIsolation == []FinishedAtReturn /\ <>(main_pc = "returned")

\* main has returned from a batch in which a pair failed and pairs
\* dispatched before and after it completed
C10_Witness ==
    /\ main_pc = "returned"
    /\ \E i, j, k \in 1..Len(pairs) :
          /\ i < j /\ j < k
          /\ task_pc[i] = "done" /\ task_pc[j] = "panicked" /\ task_pc[k] = "done"
          /\ {i, k} \subseteq written

-----------------------------------------------------------------------------
(* Order of the operations between Common rows *)

\* C11: in the result of lcs_diff a Removed operation is never immediately
\* followed by an Added operation: within every maximal run of operations
\* that are not Common, all the Added ones come before all the Removed ones.
C11_AddedBeforeRemoved ==
    "lcs_diff" \in called =>
        /\ \A k \in 1..(Len(result) - 1) :
              ~(result[k].kind = "Removed" /\ result[k + 1].kind = "Added")
        /\ \A j, k \in 1..Len(result) :
              (/\ j < k
               /\ result[j].kind = "Removed"
               /\ result[k].kind = "Added")
                 => \E c \in (j + 1)..(k - 1) : result[c].kind = "Common"

\* a script in which the loop itself pushed a Removed row (a Common row
\* follows it) and in which an Added row is directly followed by a Removed one
C11_Witness ==
    /\ "lcs_diff" \in called
    /\ \E k \in 1..(Len(result) - 1) :
          result[k].kind = "Removed" /\ result[k + 1].kind = "Common"
                                     /\ result[k + 1].src = "new"
    /\ \E k \in 1..(Len(result) - 1) :
          result[k].kind = "Added" /\ result[k + 1].kind = "Removed"

====
